---- MODULE Spec2Model ----
(***************************************************************************)
(* Model of the data access layer of src/src/dao/dao_api.go: the Dao CRUD  *)
(* and query wrappers around an mgo session, the Page validator and the    *)
(* DBRef resolvers.                                                        *)
(*                                                                         *)
(* Four specifications share the module:                                  *)
(*   SpecPage  Page.checkValid on offset/limit strings                     *)
(*   SpecRef   DBRef / DBRefId on a field map                              *)
(*   SpecDao   the Dao operations of one caller against one collection     *)
(*   SpecConn  the session handling of concurrent callers                  *)
(***************************************************************************)
EXTENDS Integers, Sequences, FiniteSets, TLC

VARIABLES
    page,       \* the Page value checkValid works on
    pageCall,   \* the last checkValid call: its offset and limit strings
    refMap,     \* the map[string]interface{} DBRef / DBRefId rewrite
    refCall,    \* the last DBRef / DBRefId call: arguments, map before, outcome
    coll,       \* the collection: _id -> document (its other fields)
    indexes,    \* the indexes ensured on the collection
    handle,     \* the *mgo.Query the caller got from Find
    call,       \* the last Dao call: arguments, collection before, outcome
    open,       \* the session copies that are open (not yet closed)
    pc,         \* per caller: "idle", or the Dao method it is inside
    held,       \* per caller: the session copies its running call opened
    used        \* per caller: the session its running call talks through

pageVars == <<page, pageCall>>
refVars == <<refMap, refCall>>
daoVars == <<coll, indexes, handle, call>>
connVars == <<open, pc, held, used>>
vars == <<page, pageCall, refMap, refCall, coll, indexes, handle, call,
          open, pc, held, used>>

(***************************************************************************)
(* strconv.ParseInt(s, 10, 32), as Page.checkValid calls it                *)
(***************************************************************************)

\* bitSize argument of both ParseInt calls
BitSize == 32

\* 2^(BitSize-1) - 1, the largest value ParseInt(_, 10, 32) returns
MaxInt32 == (2^(BitSize - 2) - 1) * 2 + 1

MinInt32 == (-MaxInt32) - 1

Digits == {"0", "1", "2", "3", "4", "5", "6", "7", "8", "9"}

DigitVal(ch) ==
    CASE ch = "0" -> 0 [] ch = "1" -> 1 [] ch = "2" -> 2 [] ch = "3" -> 3
      [] ch = "4" -> 4 [] ch = "5" -> 5 [] ch = "6" -> 6 [] ch = "7" -> 7
      [] ch = "8" -> 8 [] ch = "9" -> 9

\* Magnitude of a digit string against the cutoff 2^31: over = 0 when the
\* value v is below the cutoff, 1 when it is exactly the cutoff, 2 above it.
RECURSIVE Magnitude(_)
Magnitude(s) ==
    IF s = <<>> THEN [v |-> 0, over |-> 0]
    ELSE LET r == Magnitude(SubSeq(s, 1, Len(s) - 1))
             d == DigitVal(s[Len(s)])
         IN  IF r.over > 0 THEN [v |-> 0, over |-> 2]
             ELSE IF r.v < MaxInt32 \div 10 \/ (r.v = MaxInt32 \div 10 /\ d <= MaxInt32 % 10)
                  THEN [v |-> r.v * 10 + d, over |-> 0]
             ELSE IF r.v = MaxInt32 \div 10 /\ d = (MaxInt32 % 10) + 1
                  THEN [v |-> 0, over |-> 1]
             ELSE [v |-> 0, over |-> 2]

\* strconv.ParseInt(s, 10, 32): the value and the error kind
\* ("nil", "syntax", "range").
ParseInt(s) ==
    IF s = <<>> THEN [n |-> 0, err |-> "syntax"]
    ELSE LET neg == s[1] = "-"
             body == IF s[1] \in {"+", "-"} THEN Tail(s) ELSE s
         IN  IF body = <<>> \/ \E i \in 1..Len(body) : body[i] \notin Digits
             THEN [n |-> 0, err |-> "syntax"]
             ELSE LET m == Magnitude(body)
                  IN  IF ~neg /\ m.over >= 1 THEN [n |-> MaxInt32, err |-> "range"]
                      ELSE IF neg /\ m.over = 2 THEN [n |-> MinInt32, err |-> "range"]
                      ELSE IF neg /\ m.over = 1 THEN [n |-> MinInt32, err |-> "nil"]
                      ELSE [n |-> IF neg THEN -m.v ELSE m.v, err |-> "nil"]

(***************************************************************************)
(* Page and Page.checkValid                                                *)
(***************************************************************************)

\* offset / limit strings handed to checkValid: empty, plain, signed,
\* malformed, and the edges of the 32 bit range
PageStrings ==
    { <<>>, <<"0">>, <<"7">>, <<"1", "0">>, <<"+", "5">>, <<"-", "5">>,
      <<"-", "0">>, <<"-">>, <<"x">>, <<"7", "x">>,
      <<"2","1","4","7","4","8","3","6","4","7">>,
      <<"2","1","4","7","4","8","3","6","4","8">>,
      <<"-","2","1","4","7","4","8","3","6","4","8">>,
      <<"-","2","1","4","7","4","8","3","6","4","9">> }

\* Page values checkValid is called on: the zero value, and Pages left by
\* earlier paging (offsets and limits that are not negative)
PriorPages ==
    [Valid : BOOLEAN, Offset : {0, 10}, Limit : {0, 5}]

\* Page{}
ZeroPage == [Valid |-> FALSE, Offset |-> 0, Limit |-> 0]

NoPageCall == [called |-> FALSE, offset |-> <<>>, limit |-> <<>>]

\* checkValid without its two "< 0" tests: a parsed negative number counts
\* as valid
checkValidNoSignTest(p, offset, limit) ==
    IF offset = <<>> \/ limit = <<>>
    THEN [p EXCEPT !.Valid = FALSE]
    ELSE LET l == ParseInt(limit)
             o == ParseInt(offset)
         IN  IF l.err # "nil" THEN [p EXCEPT !.Limit = l.n, !.Valid = FALSE]
             ELSE IF o.err # "nil"
                  THEN [p EXCEPT !.Limit = l.n, !.Offset = o.n, !.Valid = FALSE]
             ELSE [p EXCEPT !.Limit = l.n, !.Offset = o.n, !.Valid = TRUE]

\* func (p *Page) checkValid(offset, limit string)
checkValidPage(p, offset, limit) ==
    IF offset = <<>> \/ limit = <<>>
    THEN [p EXCEPT !.Valid = FALSE]
    ELSE LET l == ParseInt(limit)
             p1 == [p EXCEPT !.Limit = l.n]
         IN  IF l.err # "nil" \/ p1.Limit < 0
             THEN [p1 EXCEPT !.Valid = FALSE]
             ELSE LET o == ParseInt(offset)
                      p2 == [p1 EXCEPT !.Offset = o.n]
                  IN  IF o.err # "nil" \/ p2.Offset < 0
                      THEN [p2 EXCEPT !.Valid = FALSE]
                      ELSE [p2 EXCEPT !.Valid = TRUE]

CheckValid(offset, limit) ==
    /\ page' = checkValidPage(page, offset, limit)
    /\ pageCall' = [called |-> TRUE, offset |-> offset, limit |-> limit]
    /\ UNCHANGED <<refVars, daoVars, connVars>>

PageIdle ==
    /\ page = ZeroPage
    /\ pageCall = NoPageCall

PageNext == \E offset \in PageStrings, limit \in PageStrings : CheckValid(offset, limit)

(***************************************************************************)
(* DBRef and DBRefId                                                       *)
(***************************************************************************)

\* interface{} values held by the field maps
NilV == [kind |-> "nil"]
IntV(n) == [kind |-> "int", n |-> n]
StrV(s) == [kind |-> "string", s |-> s]
MapV(f) == [kind |-> "map", m |-> f]

\* len of the hex form bson.IsObjectIdHex accepts
ObjectIdHexLen == 24

HexChars == Digits \cup {"a", "b", "c", "d", "e", "f", "A", "B", "C", "D", "E", "F"}

HexVal(ch) ==
    CASE ch \in Digits -> DigitVal(ch)
      [] ch \in {"a", "A"} -> 10 [] ch \in {"b", "B"} -> 11
      [] ch \in {"c", "C"} -> 12 [] ch \in {"d", "D"} -> 13
      [] ch \in {"e", "E"} -> 14 [] ch \in {"f", "F"} -> 15

\* bson.IsObjectIdHex(s)
IsObjectIdHex(s) ==
    /\ Len(s) = ObjectIdHexLen
    /\ \A i \in 1..Len(s) : s[i] \in HexChars

\* bson.ObjectIdHex(s): the 12 bytes the hex string decodes to
ObjectIdHex(s) ==
    [kind |-> "ObjectId",
     bytes |-> [i \in 1..(Len(s) \div 2) |->
                   16 * HexVal(s[2 * i - 1]) + HexVal(s[2 * i])]]

Repeat(ch, n) == [i \in 1..n |-> ch]

\* id strings: well formed (lower and upper case), one short, one not hex
SampleIdStrings ==
    { Repeat("a", ObjectIdHexLen),
      Repeat("A", ObjectIdHexLen),
      Repeat("5", ObjectIdHexLen - 1),
      [i \in 1..ObjectIdHexLen |-> IF i = 1 THEN "g" ELSE "0"],
      <<>> }

Vowels == {"a", "e", "i", "o", "u", "y"}

\* inflector.Pluralize on the regular nouns used here: consonant + y gives
\* ies, a final x gives es, a final s stays, anything else gets an s.
Pluralize(w) ==
    LET n == Len(w)
    IN  IF n = 0 THEN w
        ELSE IF n >= 2 /\ w[n] = "y" /\ w[n - 1] \notin Vowels
             THEN SubSeq(w, 1, n - 1) \o <<"i", "e", "s">>
        ELSE IF w[n] = "x" THEN w \o <<"e", "s">>
        ELSE IF w[n] = "s" THEN w
        ELSE Append(w, "s")

LowerCh(ch) ==
    CASE ch = "A" -> "a" [] ch = "B" -> "b" [] ch = "C" -> "c"
      [] ch = "U" -> "u" [] OTHER -> ch

\* strings.ToLower
ToLower(w) == [i \in 1..Len(w) |-> LowerCh(w[i])]

\* reflect.Type names passed as t
TypeNames ==
    { <<"A","u","t","h","o","r">>,
      <<"C","a","t","e","g","o","r","y">>,
      <<"B","o","x">> }

RefFields == {"author", "editor"}

\* values a caller may put under a reference field's id property
IdValues == {NilV, IntV(5)} \cup {StrV(s) : s \in SampleIdStrings}

\* values a caller may put under the reference field
RefValues ==
    {NilV, IntV(5), StrV(<<"x">>)}
      \cup {MapV(<<>>), MapV([k \in {"name"} |-> StrV(<<"x">>)])}
      \cup {MapV([k \in {"id"} |-> v]) : v \in IdValues}
      \cup {MapV([k \in {"id", "name"} |-> IF k = "id" THEN v ELSE StrV(<<"x">>)]) :
              v \in IdValues}

\* delete(m, k)
MapDelete(m, k) == [x \in (DOMAIN m) \ {k} |-> m[x]]

\* m[k] = v
MapPut(m, k, v) == [x \in (DOMAIN m) \cup {k} |-> IF x = k THEN v ELSE m[x]]

\* The check of line 366 / 390 on the id value: reflect.TypeOf(nil) is the
\* nil Type and its Kind() call dereferences nil.
IdCheck(id) ==
    IF id.kind = "nil" THEN "panic"
    ELSE IF id.kind # "string" THEN "id format error"
    ELSE IF ~IsObjectIdHex(id.s) THEN "id format error"
    ELSE "nil"

\* func DBRef(field string, t reflect.Type, m map[string]interface{}) error
\* gives the map left behind and the outcome.
DBRefRes(field, t, m) ==
    IF field \notin DOMAIN m THEN [m |-> m, err |-> "nil"]
    ELSE IF m[field].kind # "map" THEN [m |-> m, err |-> "invalid param given"]
    ELSE IF "id" \notin DOMAIN m[field].m
         THEN [m |-> m, err |-> "must be an object and contain a id field"]
    ELSE LET id == m[field].m["id"]
             m1 == MapDelete(m, field)
             chk == IdCheck(id)
         IN  IF chk # "nil" THEN [m |-> m1, err |-> chk]
             ELSE [m |-> MapPut(m1, field \o "_ref",
                                [kind |-> "DBRef", Id |-> ObjectIdHex(id.s),
                                 Collection |-> ToLower(Pluralize(t))]),
                   err |-> "nil"]

\* func DBRefId(field string, m map[string]interface{}) error
DBRefIdRes(field, m) ==
    IF field \notin DOMAIN m THEN [m |-> m, err |-> "nil"]
    ELSE IF m[field].kind # "map" THEN [m |-> m, err |-> "invalid param given"]
    ELSE IF "id" \notin DOMAIN m[field].m
         THEN [m |-> m, err |-> "must be an object and contain a id field"]
    ELSE LET id == m[field].m["id"]
             m1 == MapDelete(m, field)
             chk == IdCheck(id)
         IN  IF chk # "nil" THEN [m |-> m1, err |-> chk]
             ELSE [m |-> MapPut(m1, field \o "_ref.$id", ObjectIdHex(id.s)),
                   err |-> "nil"]

NoRefCall == [op |-> "none", field |-> "", before |-> <<>>, err |-> "nil"]

DBRef(field, t) ==
    LET r == DBRefRes(field, t, refMap)
    IN  /\ refMap' = r.m
        /\ refCall' = [op |-> "DBRef", field |-> field, before |-> refMap,
                       err |-> r.err]
        /\ UNCHANGED <<pageVars, daoVars, connVars>>

DBRefId(field) ==
    LET r == DBRefIdRes(field, refMap)
    IN  /\ refMap' = r.m
        /\ refCall' = [op |-> "DBRefId", field |-> field, before |-> refMap,
                       err |-> r.err]
        /\ UNCHANGED <<pageVars, daoVars, connVars>>

\* field maps handed to the resolvers: a title, and under any of the
\* reference fields any of the values above
InitialRefMaps ==
    { [k \in D \cup {"title"} |-> IF k = "title" THEN StrV(<<"t">>) ELSE f[k]] :
        D \in SUBSET RefFields, f \in [RefFields -> RefValues] }

RefIdle ==
    /\ refMap = <<>>
    /\ refCall = NoRefCall

RefNext ==
    \/ \E field \in RefFields, t \in TypeNames : DBRef(field, t)
    \/ \E field \in RefFields : DBRefId(field)

(***************************************************************************)
(* The collection behind the Dao: documents, filters, updates, indexes     *)
(***************************************************************************)

\* most documents the collection holds (and distinct ObjectIds in use)
MaxDocs == 2

\* Now() returns a time in 1..MaxTime
MaxTime == 2

Ids == 1..MaxDocs
Times == 1..MaxTime

\* values of the name field
Names == {1}

\* selector / query values: nil, bson.ObjectId, bson.M, and two kinds that
\* are neither (a string, a plain map[string]interface{})
OidV(id) == [kind |-> "ObjectId", id |-> id]
MV(f) == [kind |-> "M", m |-> f]

One(k, v) == [x \in {k} |-> v]

\* filter maps: a document matches when it has every key with that value
Filters == {<<>>, One("is_delete", 1)} \cup {One("name", v) : v \in Names}

Selectors ==
    {NilV, StrV(<<"x">>), MapV(<<>>)}
      \cup {OidV(id) : id \in Ids}
      \cup {MV(f) : f \in Filters}

Matches(d, f) == \A k \in DOMAIN f : k \in DOMAIN d /\ d[k] = f[k]

\* ids of the documents of c a query value selects
Matching(c, q) ==
    IF q.kind = "ObjectId" THEN {id \in DOMAIN c : id = q.id}
    ELSE {id \in DOMAIN c : Matches(c[id], q.m)}

\* an index key such as "-create_at": the field and the direction
Key(field, desc) == [field |-> field, desc |-> desc]

\* idxKeys / sortKeys a caller passes: none, or one ascending name key
KeyLists == {<<>>, <<Key("name", FALSE)>>}

IndexFields(ix) == {ix.Key[i].field : i \in 1..Len(ix.Key)}

\* a sparse index holds the documents that have one of its fields
Indexed(d, ix) == IndexFields(ix) \cap DOMAIN d # {}

SameKey(d1, d2, ix) ==
    \A f \in IndexFields(ix) :
        \/ f \notin DOMAIN d1 /\ f \notin DOMAIN d2
        \/ f \in DOMAIN d1 /\ f \in DOMAIN d2 /\ d1[f] = d2[f]

\* pairs of documents of c a unique index ix does not allow
Duplicates(c, ix) ==
    {p \in (DOMAIN c) \X (DOMAIN c) :
        /\ p[1] < p[2]
        /\ Indexed(c[p[1]], ix) /\ Indexed(c[p[2]], ix)
        /\ SameKey(c[p[1]], c[p[2]], ix)}

UniqueOk(c, ixs) == \A ix \in ixs : ix.Unique => Duplicates(c, ix) = {}

Restrict(c, S) == [id \in S |-> c[id]]

\* a result of one Dao call: the collection and indexes it leaves, the
\* error returned, the value returned, the database round trips issued
Outcome(c, ixs, err, val, steps) ==
    [coll |-> c, indexes |-> ixs, err |-> err, val |-> val, steps |-> steps]

\* co.EnsureIndex(index): no effect (and no round trip) when the index was
\* ensured before; on a collection with duplicate keys the server either
\* refuses, or (DropDups, servers before 3.0) drops the later duplicates.
EnsureIndexRes(c, ixs, ix, net) ==
    IF ix \in ixs THEN {[ok |-> TRUE, coll |-> c, indexes |-> ixs]}
    ELSE IF net = "down" THEN {[ok |-> FALSE, coll |-> c, indexes |-> ixs]}
    ELSE IF Duplicates(c, ix) = {}
         THEN {[ok |-> TRUE, coll |-> c, indexes |-> ixs \cup {ix}]}
    ELSE {[ok |-> FALSE, coll |-> c, indexes |-> ixs],
          [ok |-> TRUE,
           coll |-> Restrict(c, {id \in DOMAIN c :
                                   ~\E p \in Duplicates(c, ix) : p[2] = id}),
           indexes |-> ixs \cup {ix}]}

\* a document written under _id id: doc.id = 0 stands for a document
\* without _id, which gets a fresh ObjectId
InsertRes(c, ixs, doc) ==
    LET ids == IF doc.id = 0 THEN Ids \ DOMAIN c ELSE {doc.id}
    IN  {IF id \in DOMAIN c
         THEN [ok |-> FALSE, coll |-> c]
         ELSE LET c1 == [x \in (DOMAIN c) \cup {id} |->
                            IF x = id THEN doc.fields ELSE c[x]]
              IN  IF UniqueOk(c1, ixs) THEN [ok |-> TRUE, coll |-> c1]
                  ELSE [ok |-> FALSE, coll |-> c] : id \in ids}

\* the index CreateDoc builds from idxKeys
CreateIndexSpec(idxKeys) ==
    [Key |-> IF Len(idxKeys) = 0 THEN <<Key("create_at", TRUE)>> ELSE idxKeys,
     Unique |-> TRUE, DropDups |-> TRUE, Background |-> TRUE, Sparse |-> TRUE]

\* co.Insert(doc)
CollInsertRes(c, ixs, doc, net) ==
    IF net = "down" THEN {[ok |-> FALSE, coll |-> c]} ELSE InsertRes(c, ixs, doc)

\* CreateDoc that ignores the error of EnsureIndex and inserts anyway
CreateDocIgnoringIndexError(c, ixs, doc, idxKeys, net) ==
    UNION { {Outcome(i.coll, e.indexes, IF i.ok THEN "nil" ELSE "driver",
                     <<>>, <<"EnsureIndex", "Insert">>) :
               i \in InsertRes(e.coll, e.indexes, doc)}
            : e \in EnsureIndexRes(c, ixs, CreateIndexSpec(idxKeys), net) }

\* func (d *Dao) CreateDoc(collection, docs, idxKeys...) error
CreateDocRes(c, ixs, doc, idxKeys, net) ==
    UNION { IF ~e.ok
            THEN {Outcome(e.coll, e.indexes, "driver", <<>>, <<"EnsureIndex">>)}
            ELSE {Outcome(i.coll, e.indexes, IF i.ok THEN "nil" ELSE "driver",
                          <<>>, <<"EnsureIndex", "Insert">>) :
                    i \in CollInsertRes(e.coll, e.indexes, doc, net)}
            : e \in EnsureIndexRes(c, ixs, CreateIndexSpec(idxKeys), net) }

(***************************************************************************)
(* Updates                                                                 *)
(***************************************************************************)

\* update payloads (bson.M): replacement documents, with and without the
\* protected fields, and $set documents naming plain and protected fields
Updates ==
    {One("name", v) : v \in Names}
      \cup {[k \in {"_id", "create_at", "name"} |->
               IF k = "_id" THEN 1 ELSE IF k = "create_at" THEN t ELSE v] :
                 t \in Times, v \in Names}
      \cup {One("$set", One("name", v)) : v \in Names}
      \cup {One("$set", One("create_at", t)) : t \in Times}
      \cup {One("$set", One("_id", 1))}

Overlay(d, s) ==
    [k \in (DOMAIN d) \cup (DOMAIN s) |-> IF k \in DOMAIN s THEN s[k] ELSE d[k]]

\* the document the server makes of document d (with _id id) under update
\* u: a $set document sets its fields, any other document replaces d; _id
\* cannot change. ok = FALSE when the server refuses the update.
UpdatedDoc(d, id, u) ==
    IF "$set" \in DOMAIN u
    THEN IF DOMAIN u # {"$set"} THEN [ok |-> FALSE, doc |-> d]
         ELSE IF "_id" \in DOMAIN u["$set"] /\ u["$set"]["_id"] # id
              THEN [ok |-> FALSE, doc |-> d]
         ELSE [ok |-> TRUE, doc |-> Overlay(d, MapDelete(u["$set"], "_id"))]
    ELSE IF "_id" \in DOMAIN u /\ u["_id"] # id THEN [ok |-> FALSE, doc |-> d]
         ELSE [ok |-> TRUE, doc |-> MapDelete(u, "_id")]

\* co.Update(q, u) / co.UpdateId(id, u): one matching document is updated
UpdateRes(c, ixs, q, u, net) ==
    IF net = "down" THEN {[err |-> "driver", coll |-> c]}
    ELSE IF Matching(c, q) = {} THEN {[err |-> "ErrNotFound", coll |-> c]}
    ELSE { LET r == UpdatedDoc(c[id], id, u)
               c1 == [c EXCEPT ![id] = r.doc]
           IN  IF r.ok /\ UniqueOk(c1, ixs) THEN [err |-> "nil", coll |-> c1]
               ELSE [err |-> "driver", coll |-> c]
           : id \in Matching(c, q) }

\* co.Remove(q) / co.RemoveId(id): one matching document is removed
RemoveRes(c, q, net) ==
    IF net = "down" THEN {[err |-> "driver", coll |-> c]}
    ELSE IF Matching(c, q) = {} THEN {[err |-> "ErrNotFound", coll |-> c]}
    ELSE {[err |-> "nil", coll |-> Restrict(c, (DOMAIN c) \ {id})] :
            id \in Matching(c, q)}

\* the insert half of an upsert: the new document takes the filter's
\* fields and the update; its _id is the selector's, the update's, or fresh
UpsertInsertRes(c, ixs, q, u) ==
    LET base == IF q.kind = "M" THEN q.m ELSE <<>>
        body == IF "$set" \in DOMAIN u THEN u["$set"] ELSE u
        given == IF "_id" \in DOMAIN body THEN body["_id"] ELSE 0
        fields == IF "$set" \in DOMAIN u
                  THEN Overlay(base, MapDelete(body, "_id"))
                  ELSE MapDelete(body, "_id")
    IN  IF "$set" \in DOMAIN u /\ DOMAIN u # {"$set"}
        THEN {[ok |-> FALSE, coll |-> c]}
        ELSE IF q.kind = "ObjectId" /\ given # 0 /\ given # q.id
        THEN {[ok |-> FALSE, coll |-> c]}
        ELSE InsertRes(c, ixs,
                       [id |-> IF q.kind = "ObjectId" THEN q.id ELSE given,
                        fields |-> fields])

\* co.Upsert(q, u) / co.UpsertId(id, u)
UpsertRes(c, ixs, q, u, net) ==
    IF net = "down" THEN {[err |-> "driver", coll |-> c]}
    ELSE IF Matching(c, q) # {} THEN UpdateRes(c, ixs, q, u, net)
    ELSE {[err |-> IF i.ok THEN "nil" ELSE "driver", coll |-> i.coll] :
            i \in UpsertInsertRes(c, ixs, q, u)}

\* mgo.Change values UpsertDoc is handed
Changes ==
    {[Update |-> One("$set", One("name", 1)), Upsert |-> up, Remove |-> FALSE] :
        up \in BOOLEAN}
      \cup {[Update |-> <<>>, Upsert |-> FALSE, Remove |-> TRUE]}

\* co.Find(q).Apply(change, &i): findAndModify
ApplyRes(c, ixs, q, change, net) ==
    IF net = "down" THEN {[err |-> "driver", coll |-> c]}
    ELSE IF change.Remove THEN RemoveRes(c, q, net)
    ELSE IF Matching(c, q) # {} THEN UpdateRes(c, ixs, q, change.Update, net)
    ELSE IF change.Upsert
         THEN {[err |-> IF i.ok THEN "nil" ELSE "driver", coll |-> i.coll] :
                 i \in UpsertInsertRes(c, ixs, q, change.Update)}
    ELSE {[err |-> "ErrNotFound", coll |-> c]}

IsChange(u) == "Remove" \in DOMAIN u

(***************************************************************************)
(* The Dao methods that take a selector                                    *)
(***************************************************************************)

\* func (d *Dao) UpsertDoc(collection, selector, update) (*mgo.ChangeInfo, error)
UpsertDocRes(c, ixs, selector, update, net) ==
    IF selector.kind = "nil" THEN {Outcome(c, ixs, "errNull", <<>>, <<>>)}
    ELSE IF selector.kind \in {"M", "ObjectId"}
         THEN IF IsChange(update)
              THEN {Outcome(r.coll, ixs, r.err, <<>>, <<"Apply">>) :
                      r \in ApplyRes(c, ixs, selector, update, net)}
              ELSE {Outcome(r.coll, ixs, r.err, <<>>, <<"Upsert">>) :
                      r \in UpsertRes(c, ixs, selector, update, net)}
    ELSE {Outcome(c, ixs, "errUnSupportType", <<>>, <<>>)}

\* func (d *Dao) RemoveDoc(collection, selector) error
RemoveDocRes(c, ixs, selector, net) ==
    IF selector.kind = "nil" THEN {Outcome(c, ixs, "errNull", <<>>, <<>>)}
    ELSE IF selector.kind \in {"M", "ObjectId"}
         THEN {Outcome(r.coll, ixs, r.err, <<>>, <<"Remove">>) :
                 r \in RemoveRes(c, selector, net)}
    ELSE {Outcome(c, ixs, "errUnSupportType", <<>>, <<>>)}

\* the update SoftRemoveDoc builds from its two Now() readings
SoftRemoveUpdate(t1, t2) ==
    One("$set", [k \in {"modify_at", "delete_at", "is_delete"} |->
                    IF k = "modify_at" THEN t1
                    ELSE IF k = "delete_at" THEN t2 ELSE 1])

\* SoftRemoveDoc that removes the document, as RemoveDoc does
SoftRemoveDocRemoving(c, ixs, selector, t1, t2, net) ==
    IF selector.kind = "nil" THEN {Outcome(c, ixs, "errNull", <<>>, <<>>)}
    ELSE IF selector.kind \in {"M", "ObjectId"}
         THEN {Outcome(r.coll, ixs, r.err, <<>>, <<"Remove">>) :
                 r \in RemoveRes(c, selector, net)}
    ELSE {Outcome(c, ixs, "errUnSupportType", <<>>, <<>>)}

\* func (d *Dao) SoftRemoveDoc(collection, selector) error
SoftRemoveDocRes(c, ixs, selector, t1, t2, net) ==
    IF selector.kind = "nil" THEN {Outcome(c, ixs, "errNull", <<>>, <<>>)}
    ELSE IF selector.kind \in {"M", "ObjectId"}
         THEN {Outcome(r.coll, ixs, r.err, <<>>, <<"Update">>) :
                 r \in UpdateRes(c, ixs, selector, SoftRemoveUpdate(t1, t2), net)}
    ELSE {Outcome(c, ixs, "errUnSupportType", <<>>, <<>>)}

\* the payload UpdateDoc hands to the database: the top level _id and
\* create_at keys deleted
StripUpdate(update) == MapDelete(MapDelete(update, "_id"), "create_at")

\* UpdateDoc without its nil test: a nil selector falls through the two
\* type assertions
UpdateDocNoNilTest(c, ixs, selector, update, net) ==
    IF selector.kind \in {"M", "ObjectId"}
    THEN {Outcome(r.coll, ixs, r.err, <<>>, <<"Update">>) :
            r \in UpdateRes(c, ixs, selector, StripUpdate(update), net)}
    ELSE {Outcome(c, ixs, "errUnSupportType", <<>>, <<>>)}

\* func (d *Dao) UpdateDoc(collection, selector, update bson.M) error
UpdateDocRes(c, ixs, selector, update, net) ==
    IF selector.kind = "nil" THEN {Outcome(c, ixs, "errNull", <<>>, <<>>)}
    ELSE IF selector.kind \in {"M", "ObjectId"}
         THEN {Outcome(r.coll, ixs, r.err, <<>>, <<"Update">>) :
                 r \in UpdateRes(c, ixs, selector, StripUpdate(update), net)}
    ELSE {Outcome(c, ixs, "errUnSupportType", <<>>, <<>>)}

(***************************************************************************)
(* Queries                                                                 *)
(***************************************************************************)

\* the value a sort key reads from a document; a missing field sorts lowest
SortVal(d, key) == IF key.field \in DOMAIN d THEN d[key.field] ELSE 0

\* document a comes before document b under the sort keys; documents the
\* keys do not tell apart come in _id order
RECURSIVE Before(_, _, _, _)
Before(c, a, b, keys) ==
    IF keys = <<>> THEN a < b
    ELSE LET va == SortVal(c[a], Head(keys))
             vb == SortVal(c[b], Head(keys))
         IN  IF va = vb THEN Before(c, a, b, Tail(keys))
             ELSE IF Head(keys).desc THEN va > vb ELSE va < vb

RECURSIVE SortIds(_, _, _)
SortIds(c, S, keys) ==
    IF S = {} THEN <<>>
    ELSE LET first == CHOOSE a \in S : \A b \in S \ {a} : Before(c, a, b, keys)
         IN  <<first>> \o SortIds(c, S \ {first}, keys)

\* q.Skip(offset).Limit(limit): a limit of 0 is no limit
SkipLimit(seq, offset, limit) ==
    LET from == offset + 1
        to == IF limit = 0 \/ offset + limit > Len(seq) THEN Len(seq)
              ELSE offset + limit
    IN  SubSeq(seq, from, to)

\* sortKeys as Find and FindDoc use them
FindSortKeys(sortKeys) ==
    IF Len(sortKeys) = 0 THEN <<Key("create_at", TRUE)>> ELSE sortKeys

Docs(c, ids) == [i \in 1..Len(ids) |-> [_id |-> ids[i], doc |-> c[ids[i]]]]

\* what iterating the query built by Find / FindDoc yields: the matching
\* documents, sorted, and skipped / limited when page.Valid. A query value
\* that is no document cannot be sent.
RunQuery(c, query, pg, sortKeys, net) ==
    IF net = "down" \/ query.kind \notin {"M", "ObjectId", "map"}
    THEN [err |-> "driver", val |-> <<>>]
    ELSE LET sorted == SortIds(c, Matching(c, query), FindSortKeys(sortKeys))
         IN  [err |-> "nil",
              val |-> Docs(c, IF pg.Valid
                              THEN SkipLimit(sorted, pg.Offset, pg.Limit)
                              ELSE sorted)]

\* Page values handed to Find and FindDoc
FindPages == {ZeroPage, [Valid |-> TRUE, Offset |-> 1, Limit |-> 1]}

NoHandle == [ok |-> FALSE, session |-> 0, query |-> NilV, page |-> ZeroPage,
             sortKeys |-> <<>>]

\* func (d *Dao) Find(collection, query, page, sortKeys...) (*mgo.Query, error)
\* the query returned is bound to the session copy of this call
FindRes(session, query, pg, sortKeys) ==
    IF query.kind = "nil" THEN [err |-> "errNull", q |-> NoHandle]
    ELSE [err |-> "nil",
          q |-> [ok |-> TRUE, session |-> session, query |-> query,
                 page |-> pg, sortKeys |-> sortKeys]]

\* func (d *Dao) FindDoc(collection, query, page, sortKeys...) ([]interface{}, error)
FindDocRes(c, ixs, query, pg, sortKeys, net) ==
    IF query.kind = "nil" THEN Outcome(c, ixs, "errNull", <<>>, <<>>)
    ELSE LET r == RunQuery(c, query, pg, sortKeys, net)
         IN  Outcome(c, ixs, r.err, r.val, <<"All">>)

\* func (d *Dao) FindOne(collection, query) (interface{}, error)
\* a query that is neither bson.M nor bson.ObjectId leaves q nil, and
\* q.One dereferences it
FindOneRes(c, ixs, query, net) ==
    IF query.kind = "nil" THEN Outcome(c, ixs, "errNull", <<>>, <<>>)
    ELSE IF query.kind = "M"
    THEN IF net = "down" THEN Outcome(c, ixs, "driver", <<>>, <<"Count">>)
         ELSE IF Cardinality(Matching(c, query)) > 1
              THEN Outcome(c, ixs, "ErrNotFound", <<>>, <<"Count">>)
         ELSE IF Matching(c, query) = {}
              THEN Outcome(c, ixs, "ErrNotFound", <<>>, <<"Count", "One">>)
         ELSE Outcome(c, ixs, "nil", Docs(c, SortIds(c, Matching(c, query), <<>>)),
                      <<"Count", "One">>)
    ELSE IF query.kind = "ObjectId"
    THEN IF net = "down" THEN Outcome(c, ixs, "driver", <<>>, <<"One">>)
         ELSE IF Matching(c, query) = {}
              THEN Outcome(c, ixs, "ErrNotFound", <<>>, <<"One">>)
         ELSE Outcome(c, ixs, "nil", Docs(c, SortIds(c, Matching(c, query), <<>>)),
                      <<"One">>)
    ELSE Outcome(c, ixs, "panic", <<>>, <<>>)

(***************************************************************************)
(* Sessions                                                                *)
(***************************************************************************)

\* d.Session, the session the Dao was built on
RootSession == 0

\* d.Session.Copy(): a session of its own, different from the open ones
sessionCopy(o) == CHOOSE s \in 1..(Cardinality(o) + 1) : s \notin o

\* defer session.Close()
sessionClose(o, s) == o \ {s}

(***************************************************************************)
(* One caller: each Dao call from entry to return                          *)
(***************************************************************************)

Nets == {"up", "down"}

NoCall == [op |-> "none", selector |-> NilV, arg |-> <<>>, before |-> <<>>,
           indexesBefore |-> {}, err |-> "nil", val |-> <<>>, steps |-> <<>>,
           session |-> 0]

\* the bookkeeping of a call that ran to its return: session copied at
\* entry, result recorded, session closed by the deferred Close
Returned(op, selector, arg, o) ==
    LET s == sessionCopy(open)
    IN  /\ call.op = "none"
        /\ coll' = o.coll
        /\ indexes' = o.indexes
        /\ call' = [op |-> op, selector |-> selector, arg |-> arg,
                    before |-> coll, indexesBefore |-> indexes,
                    err |-> o.err, val |-> o.val, steps |-> o.steps,
                    session |-> s]
        /\ open' = sessionClose(open \cup {s}, s)
        /\ UNCHANGED <<pageVars, refVars, pc, held, used>>

\* documents handed to CreateDoc: with an _id of the caller's or without
NewDocs ==
    {[id |-> id,
      fields |-> [k \in {"create_at", "name"} |-> IF k = "create_at" THEN t ELSE v]] :
        id \in Ids \cup {0}, t \in Times, v \in Names}

CreateDoc ==
    /\ call.op = "none"
    /\ \E doc \in NewDocs, idxKeys \in KeyLists, net \in Nets :
         \E o \in CreateDocRes(coll, indexes, doc, idxKeys, net) :
            /\ Returned("CreateDoc", NilV, [doc |-> doc, idxKeys |-> idxKeys], o)
            /\ UNCHANGED handle

UpsertDoc ==
    /\ call.op = "none"
    /\ \E selector \in Selectors, net \in Nets :
         \/ \E update \in Updates :
              \E o \in UpsertDocRes(coll, indexes, selector, update, net) :
                 /\ Returned("UpsertDoc", selector, update, o)
                 /\ UNCHANGED handle
         \/ \E change \in Changes :
              \E o \in UpsertDocRes(coll, indexes, selector, change, net) :
                 /\ Returned("UpsertDoc", selector, change, o)
                 /\ UNCHANGED handle

RemoveDoc ==
    /\ call.op = "none"
    /\ \E selector \in Selectors, net \in Nets :
         \E o \in RemoveDocRes(coll, indexes, selector, net) :
            /\ Returned("RemoveDoc", selector, <<>>, o)
            /\ UNCHANGED handle

\* Now() is read twice, for modify_at and then for delete_at
SoftRemoveDoc ==
    /\ call.op = "none"
    /\ \E selector \in Selectors, t1 \in Times, t2 \in Times, net \in Nets :
         /\ t1 <= t2
         /\ \E o \in SoftRemoveDocRes(coll, indexes, selector, t1, t2, net) :
               /\ Returned("SoftRemoveDoc", selector, <<t1, t2>>, o)
               /\ UNCHANGED handle

UpdateDoc ==
    /\ call.op = "none"
    /\ \E selector \in Selectors, update \in Updates, net \in Nets :
         \E o \in UpdateDocRes(coll, indexes, selector, update, net) :
            /\ Returned("UpdateDoc", selector, update, o)
            /\ UNCHANGED handle

Find ==
    /\ call.op = "none"
    /\ \E query \in Selectors, pg \in FindPages, sortKeys \in KeyLists :
         LET r == FindRes(sessionCopy(open), query, pg, sortKeys)
         IN  /\ Returned("Find", query, [page |-> pg, sortKeys |-> sortKeys],
                         Outcome(coll, indexes, r.err, <<>>, <<>>))
             /\ handle' = r.q

FindDoc ==
    /\ call.op = "none"
    /\ \E query \in Selectors, pg \in FindPages, sortKeys \in KeyLists, net \in Nets :
         /\ Returned("FindDoc", query, [page |-> pg, sortKeys |-> sortKeys],
                     FindDocRes(coll, indexes, query, pg, sortKeys, net))
         /\ UNCHANGED handle

FindOne ==
    /\ call.op = "none"
    /\ \E query \in Selectors, net \in Nets :
         /\ Returned("FindOne", query, <<>>, FindOneRes(coll, indexes, query, net))
         /\ UNCHANGED handle

\* what the caller gets when it iterates the query Find returned: a query
\* on a closed session panics ("Session already closed")
IterRes(c, o, h, net) ==
    IF h.session \notin o THEN [err |-> "panic", val |-> <<>>]
    ELSE RunQuery(c, h.query, h.page, h.sortKeys, net)

\* the caller iterates the query it got from Find: q.All(&results)
Iterate ==
    /\ call.op = "Find"
    /\ handle.ok
    /\ \E net \in Nets :
       LET r == IterRes(coll, open, handle, net)
       IN  call' = [op |-> "Iterate", selector |-> handle.query,
                    arg |-> [page |-> handle.page, sortKeys |-> handle.sortKeys],
                    before |-> coll, indexesBefore |-> indexes,
                    err |-> r.err, val |-> r.val,
                    steps |-> IF r.err = "panic" THEN <<>> ELSE <<"All">>,
                    session |-> handle.session]
    /\ UNCHANGED <<pageVars, refVars, coll, indexes, handle, connVars>>

\* func (d *Dao) DropDB() error: d.Session.DB(d.Name).DropDatabase(), on the
\* Dao's own session, without a copy
DropDB ==
    /\ call.op = "none"
    /\ \E net \in Nets :
         /\ coll' = IF net = "down" THEN coll ELSE <<>>
         /\ indexes' = IF net = "down" THEN indexes ELSE {}
         /\ call' = [op |-> "DropDB", selector |-> NilV, arg |-> <<>>,
                      before |-> coll, indexesBefore |-> indexes,
                      err |-> IF net = "down" THEN "driver" ELSE "nil",
                      val |-> <<>>, steps |-> <<"DropDatabase">>,
                      session |-> RootSession]
    /\ UNCHANGED <<pageVars, refVars, handle, connVars>>

\* the caller has taken the result of its last call and is free to make
\* the next one
Resume ==
    /\ call.op # "none"
    /\ call' = NoCall
    /\ handle' = NoHandle
    /\ UNCHANGED <<pageVars, refVars, coll, indexes, connVars>>

DaoNext ==
    \/ CreateDoc
    \/ UpsertDoc
    \/ RemoveDoc
    \/ SoftRemoveDoc
    \/ UpdateDoc
    \/ Find
    \/ FindDoc
    \/ FindOne
    \/ DropDB
    \/ Iterate
    \/ Resume

(***************************************************************************)
(* Concurrent callers: the session each call works on                      *)
(***************************************************************************)

\* callers that may be inside a Dao method at the same time
NumCallers == 2

Callers == 1..NumCallers

\* the Dao methods that begin with session := d.sessionCopy() and
\* defer session.Close()
CopyMethods ==
    {"CreateDoc", "UpsertDoc", "RemoveDoc", "SoftRemoveDoc", "UpdateDoc",
     "Find", "FindDoc", "FindOne", "PipeDoc", "CreateGridFs", "FindGridFs"}

\* the ways out of each method's body: its return statements by line, and
\* "panic" where the body can panic
ExitPoints(m) ==
    CASE m = "CreateDoc" -> {"return 83", "return 86"}
      [] m = "UpsertDoc" -> {"return 99", "return 104", "return 106",
                              "return 111", "return 113", "return 115"}
      [] m = "RemoveDoc" -> {"return 125", "return 128", "return 131", "return 133"}
      [] m = "SoftRemoveDoc" -> {"return 143", "return 151", "return 154", "return 156"}
      [] m = "UpdateDoc" -> {"return 166", "return 176", "return 179", "return 181"}
      [] m = "Find" -> {"return 224", "return 236"}
      [] m = "FindDoc" -> {"return 246", "return 262"}
      [] m = "FindOne" -> {"return 272", "return 282", "return 285", "return 293",
                            "panic"}
      [] m = "PipeDoc" -> {"return 306"}
      [] m = "CreateGridFs" -> {"return 318", "return 324", "return 327", "return 329"}
      [] m = "FindGridFs" -> {"return 340", "return 345", "return 348", "return 350"}
      [] m = "DropDB" -> {"return 46"}

IdlePc == [method |-> "none", at |-> "idle"]

\* entry of a method that copies the session: the copy is the session the
\* call works on, and the deferred Close is registered for it
Enter(c) ==
    /\ pc[c] = IdlePc
    /\ \E m \in CopyMethods :
         LET s == sessionCopy(open)
         IN  /\ pc' = [pc EXCEPT ![c] = [method |-> m, at |-> "body"]]
             /\ open' = open \cup {s}
             /\ held' = [held EXCEPT ![c] = {s}]
             /\ used' = [used EXCEPT ![c] = s]
    /\ UNCHANGED <<pageVars, refVars, daoVars>>

\* func (d *Dao) DropDB() error: works on d.Session itself
EnterDropDB(c) ==
    /\ pc[c] = IdlePc
    /\ pc' = [pc EXCEPT ![c] = [method |-> "DropDB", at |-> "body"]]
    /\ used' = [used EXCEPT ![c] = RootSession]
    /\ UNCHANGED <<pageVars, refVars, daoVars, open, held>>

\* the body runs on the call's session up to one of its ways out
Run(c) ==
    /\ pc[c].at = "body"
    /\ \E x \in ExitPoints(pc[c].method) :
         pc' = [pc EXCEPT ![c] = [method |-> pc[c].method, at |-> x]]
    /\ UNCHANGED <<pageVars, refVars, daoVars, open, held, used>>

\* the deferred calls run (on a return and on a panic alike) and the call
\* is over
Leave(c) ==
    /\ pc[c].at \notin {"idle", "body"}
    /\ pc' = [pc EXCEPT ![c] = IdlePc]
    /\ open' = open \ held[c]
    /\ held' = [held EXCEPT ![c] = {}]
    /\ used' = [used EXCEPT ![c] = RootSession]
    /\ UNCHANGED <<pageVars, refVars, daoVars>>

ConnNext ==
    \E c \in Callers :
        \/ Enter(c)
        \/ EnterDropDB(c)
        \/ Run(c)
        \/ Leave(c)

ConnIdle ==
    /\ open = {}
    /\ pc = [c \in Callers |-> IdlePc]
    /\ held = [c \in Callers |-> {}]
    /\ used = [c \in Callers |-> RootSession]

DaoIdle ==
    /\ coll = <<>>
    /\ indexes = {}
    /\ handle = NoHandle
    /\ call = NoCall

DaoInit ==
    /\ DaoIdle
    /\ ConnIdle
    /\ PageIdle
    /\ RefIdle

SpecDao == DaoInit /\ [][DaoNext]_vars

ConnInit ==
    /\ ConnIdle
    /\ DaoIdle
    /\ PageIdle
    /\ RefIdle

SpecConn == ConnInit /\ [][ConnNext]_vars

(***************************************************************************)
(* Specifications                                                          *)
(***************************************************************************)

PageInit ==
    /\ page \in PriorPages
    /\ pageCall = NoPageCall
    /\ RefIdle
    /\ DaoIdle
    /\ ConnIdle

SpecPage == PageInit /\ [][PageNext]_vars

RefInit ==
    /\ refMap \in InitialRefMaps
    /\ refCall = NoRefCall
    /\ PageIdle
    /\ DaoIdle
    /\ ConnIdle

SpecRef == RefInit /\ [][RefNext]_vars

(***************************************************************************)
(* Properties                                                              *)
(***************************************************************************)

\* the Dao methods that take a selector
SelectorOps ==
    {"UpsertDoc", "UpdateDoc", "RemoveDoc", "SoftRemoveDoc", "Find", "FindDoc",
     "FindOne"}

\* C1: a call with a selector that is not nil, not a bson.ObjectId and not a
\* bson.M returns errUnSupportType and issues no database round trip.
C1_UnsupportedSelectorRejected ==
    (call.op \in SelectorOps /\ call.selector.kind \notin {"nil", "ObjectId", "M"})
        => (call.err = "errUnSupportType" /\ call.steps = <<>>)

\* C2: a call with a nil selector returns errNull, issues no database round
\* trip and leaves the collection and its indexes as they were.
C2_NilSelectorRejected ==
    (call.op \in SelectorOps /\ call.selector.kind = "nil")
        => /\ call.err = "errNull"
           /\ call.steps = <<>>
           /\ call.val = <<>>
           /\ coll = call.before
           /\ indexes = call.indexesBefore

\* a nil selector was handed to UpdateDoc on a collection that holds documents
C2_Witness ==
    /\ call.op = "UpdateDoc"
    /\ call.selector.kind = "nil"
    /\ call.err = "errNull"
    /\ DOMAIN coll # {}

\* C3: FindOne by filter returns the document when exactly one matches,
\* NotFound when none matches, and an error other than NotFound when two or
\* more match (the database answering).
C3_FindOneByFilter ==
    (call.op = "FindOne" /\ call.selector.kind = "M" /\ call.err # "driver")
        => LET found == Matching(coll, call.selector)
           IN  /\ Cardinality(found) = 1 =>
                    /\ call.err = "nil"
                    /\ \E id \in found : call.val = <<[_id |-> id, doc |-> coll[id]]>>
               /\ Cardinality(found) = 0 => call.err = "ErrNotFound"
               /\ Cardinality(found) >= 2 => call.err \notin {"nil", "ErrNotFound"}

\* C4: UpdateDoc leaves _id and create_at of every stored document as they
\* were, whatever the update payload holds.
C4_UpdateKeepsIdAndCreateAt ==
    call.op = "UpdateDoc"
        => /\ DOMAIN coll = DOMAIN call.before
           /\ \A id \in DOMAIN coll :
                /\ ("create_at" \in DOMAIN coll[id]) = ("create_at" \in DOMAIN call.before[id])
                /\ "create_at" \in DOMAIN coll[id] =>
                      coll[id]["create_at"] = call.before[id]["create_at"]

SoftFields == {"is_delete", "delete_at", "modify_at"}

\* document d with the soft delete metadata of a SoftRemoveDoc call
SoftRemoved(d, times) ==
    [k \in (DOMAIN d) \cup SoftFields |->
        IF k = "is_delete" THEN 1
        ELSE IF k = "modify_at" THEN times[1]
        ELSE IF k = "delete_at" THEN times[2]
        ELSE d[k]]

\* C5: SoftRemoveDoc removes no document. When it fails the collection is as
\* before; when it succeeds one selected document has is_delete = true and
\* the two times set and nothing else differs, that document is still found
\* by its _id, and it matches every filter it matched before and the filter
\* is_delete = true.
C5_SoftRemoveKeepsDocument ==
    call.op = "SoftRemoveDoc"
        => /\ DOMAIN coll = DOMAIN call.before
           /\ call.err # "nil" => coll = call.before
           /\ call.err = "nil" =>
                \E id \in Matching(call.before, call.selector) :
                   /\ coll = [call.before EXCEPT ![id] = SoftRemoved(@, call.arg)]
                   /\ FindOneRes(coll, indexes, OidV(id), "up").err = "nil"
                   /\ \A f \in Filters :
                         (DOMAIN f \cap SoftFields = {} /\ Matches(call.before[id], f))
                             => Matches(coll[id], f)
                   /\ Matches(coll[id], One("is_delete", 1))

\* SoftRemoveDoc by filter has marked one of two stored documents
C5_Witness ==
    /\ call.op = "SoftRemoveDoc"
    /\ call.selector.kind = "M"
    /\ call.err = "nil"
    /\ coll # call.before
    /\ Cardinality(DOMAIN coll) = 2

\* the index of a CreateDoc call without idxKeys
DefaultIndex ==
    [Key |-> <<[field |-> "create_at", desc |-> TRUE]>>,
     Unique |-> TRUE, DropDups |-> TRUE, Background |-> TRUE, Sparse |-> TRUE]

\* C6: CreateDoc ensures the index first and inserts only after that
\* succeeded; without idxKeys the index is the unique, sparse, background,
\* duplicate dropping index on -create_at; when the index step fails the
\* error is returned and no document is inserted.
C6_IndexBeforeInsert ==
    call.op = "CreateDoc"
        => /\ call.steps \in {<<"EnsureIndex">>, <<"EnsureIndex", "Insert">>}
           /\ call.steps = <<"EnsureIndex">> =>
                 /\ call.err # "nil"
                 /\ coll = call.before
                 /\ indexes = call.indexesBefore
           /\ call.steps = <<"EnsureIndex", "Insert">> =>
                 /\ call.arg.idxKeys = <<>> => DefaultIndex \in indexes
                 /\ call.arg.idxKeys # <<>> =>
                       \E ix \in indexes :
                          /\ ix.Key = call.arg.idxKeys
                          /\ ix.Unique /\ ix.Sparse /\ ix.Background /\ ix.DropDups
           /\ call.err # "nil" => DOMAIN coll \subseteq DOMAIN call.before
           /\ call.err = "nil" =>
                 \E id \in DOMAIN coll : coll[id] = call.arg.doc.fields

\* CreateDoc without idxKeys has inserted a second document
C6_Witness ==
    /\ call.op = "CreateDoc"
    /\ call.arg.idxKeys = <<>>
    /\ call.err = "nil"
    /\ Cardinality(DOMAIN call.before) = 1
    /\ Cardinality(DOMAIN coll) = 2

\* C7: a call in flight works on one session copy of its own, which no other
\* call works on, and with no call in flight no copy is open.
C7_OneSessionPerCall ==
    /\ \A c \in Callers :
          pc[c] # IdlePc => (Cardinality(held[c]) = 1 /\ used[c] \in held[c])
    /\ \A c1 \in Callers, c2 \in Callers :
          (c1 # c2 /\ pc[c1] # IdlePc /\ pc[c2] # IdlePc) => used[c1] # used[c2]
    /\ (\A c \in Callers : pc[c] = IdlePc) => open = {}

\* C8: iterating the query Find returned yields the matching documents,
\* sorted and paged (the database answering).
C8_ReturnedQueryRuns ==
    (call.op = "Iterate" /\ call.selector.kind = "M" /\ call.err # "driver")
        => /\ call.err = "nil"
           /\ call.val = RunQuery(coll, call.selector, call.arg.page,
                                  call.arg.sortKeys, "up").val

\* C9: with the field present, DBRef and DBRefId return the shape error for
\* a value that is no object or has no id, the format error for an id that
\* is no string or no ObjectId hex string, and write no _ref entry.
C9_ReferenceErrors ==
    (refCall.op # "none" /\ refCall.field \in DOMAIN refCall.before)
        => LET v == refCall.before[refCall.field]
               badShape == v.kind # "map" \/ "id" \notin DOMAIN v.m
               badId == /\ ~badShape
                        /\ \/ v.m["id"].kind # "string"
                           \/ ~IsObjectIdHex(v.m["id"].s)
           IN  /\ badShape => refCall.err \in {"invalid param given",
                                             "must be an object and contain a id field"}
               /\ badId => refCall.err = "id format error"
               /\ (badShape \/ badId) =>
                     \A k \in {refCall.field \o "_ref", refCall.field \o "_ref.$id"} :
                        k \notin DOMAIN refMap

ParsesNonNegative(str) == ParseInt(str).err = "nil" /\ ParseInt(str).n >= 0

\* C10 as stated: the Page checkValid leaves has Offset >= 0 and Limit >= 0,
\* and Valid only if both strings parsed as non-negative integers.
C10_PageInvariant ==
    pageCall.called
        => /\ page.Offset >= 0
           /\ page.Limit >= 0
           /\ page.Valid =>
                 (ParsesNonNegative(pageCall.offset) /\ ParsesNonNegative(pageCall.limit))

\* C10 amended: Valid holds exactly when both strings parsed as non-negative
\* integers, and a Page left Valid holds those two numbers.
C10_ValidPage ==
    pageCall.called
        => /\ page.Valid <=>
                 (ParsesNonNegative(pageCall.offset) /\ ParsesNonNegative(pageCall.limit))
           /\ page.Valid =>
                 /\ page.Offset >= 0 /\ page.Offset = ParseInt(pageCall.offset).n
                 /\ page.Limit >= 0 /\ page.Limit = ParseInt(pageCall.limit).n

\* checkValid("10", "7") has left a valid Page
C10_Witness ==
    /\ pageCall.called
    /\ page.Valid
    /\ page.Offset = 10
    /\ page.Limit = 7

====
